---- MODULE Spec2Model ----
(***************************************************************************)
(* A model of the regex/keyword extraction core of the Turkish bill OCR    *)
(* backend (backend/main.py, class BillOCR): extract_dates,                *)
(* extract_amounts, extract_items, calculate_total and process_bill, run   *)
(* once, from the image on, and from concurrent request handlers on the    *)
(* shared instance; and of the POST /process-bill handler of the simple    *)
(* HTTP server (backend/simple_server.py).                                 *)
(*                                                                         *)
(* A text is a sequence of characters; a character is a one-character      *)
(* string, except the non-ASCII ones, which are written by name            *)
(* ("u-umlaut", "lira-sign", ...).  Offsets are Python's: 0-based, a span  *)
(* (start, end) covers text[start:end], i.e. SubSeq(text, start+1, end).   *)
(***************************************************************************)
EXTENDS Integers, Sequences, FiniteSets, TLC

\* one run of the extraction part of BillOCR.process_bill
VARIABLES text, pc, dates, amounts, items, total, item_count

\* the shared BillOCR instance and the calls of the request handlers on it
VARIABLES turkish_keywords, calls

\* the OCR engines of process_bill and what they read
VARIABLES available, image, text_tesseract, text_easyocr

\* the POST /process-bill handler of the simple HTTP server
VARIABLES request, srv_pc, responses, temp_files, temp_path, result, exc

shared_vars == <<turkish_keywords, calls>>

ocr_vars == <<available, image, text_tesseract, text_easyocr>>

server_vars == <<request, srv_pc, responses, temp_files, temp_path, result, exc>>

vars == <<text, pc, dates, amounts, items, total, item_count,
          shared_vars, ocr_vars, server_vars>>

(***************************************************************************)
(* Characters and the classes of Python's re module over them.             *)
(***************************************************************************)
Digits == {"0", "1", "2", "3", "4", "5", "6", "7", "8", "9"}

\* \s, and the characters str.strip() removes
Whitespace == {" ", "\n", "\t", "\r"}

UpperCase == <<"A", "B", "C", "D", "E", "F", "G", "H", "I", "J", "K", "L", "M",
               "N", "O", "P", "Q", "R", "S", "T", "U", "V", "W", "X", "Y", "Z">>

LowerCase == <<"a", "b", "c", "d", "e", "f", "g", "h", "i", "j", "k", "l", "m",
               "n", "o", "p", "q", "r", "s", "t", "u", "v", "w", "x", "y", "z">>

\* str.lower() on one character
LowerChar(c) ==
    IF \E i \in 1..Len(UpperCase) : UpperCase[i] = c
    THEN LowerCase[CHOOSE i \in 1..Len(UpperCase) : UpperCase[i] = c]
    ELSE c

\* str.lower()
Lower(s) == [i \in 1..Len(s) |-> LowerChar(s[i])]

(***************************************************************************)
(* Patterns.  Every pattern of the program is a concatenation of greedy    *)
(* character-class repetitions and of alternations of literal words.       *)
(***************************************************************************)
\* set{lo,hi}
Rep(S, lo, hi) ==
    [k |-> "cls", set |-> S, min |-> lo, max |-> hi, unb |-> FALSE,
     alts |-> <<>>, grp |-> FALSE]

\* set{lo,} : set+ is AtLeast(S, 1), set* is AtLeast(S, 0)
AtLeast(S, lo) ==
    [k |-> "cls", set |-> S, min |-> lo, max |-> lo, unb |-> TRUE,
     alts |-> <<>>, grp |-> FALSE]

\* (w1|w2|...), a capturing group
Group(ws) ==
    [k |-> "alt", set |-> {}, min |-> 0, max |-> 0, unb |-> FALSE,
     alts |-> ws, grp |-> TRUE]

\* a literal word, no group
Literal(w) ==
    [k |-> "alt", set |-> {}, min |-> 0, max |-> 0, unb |-> FALSE,
     alts |-> <<w>>, grp |-> FALSE]

Months ==
    << <<"o", "c", "a", "k">>,
       <<"s-cedilla", "u", "b", "a", "t">>,
       <<"m", "a", "r", "t">>,
       <<"n", "i", "s", "a", "n">>,
       <<"m", "a", "y", "dotless-i", "s">>,
       <<"h", "a", "z", "i", "r", "a", "n">>,
       <<"t", "e", "m", "m", "u", "z">>,
       <<"a", "g-breve", "u", "s", "t", "o", "s">>,
       <<"e", "y", "l", "u-umlaut", "l">>,
       <<"e", "k", "i", "m">>,
       <<"k", "a", "s", "dotless-i", "m">>,
       <<"a", "r", "a", "l", "dotless-i", "k">> >>

Currency == << <<"t", "l">>, <<"lira-sign">> >>

\* date_patterns with the separators of the numeric date optional
date_patterns_optsep ==
    << <<Rep(Digits, 1, 2), Rep({".", "/"}, 0, 1), Rep(Digits, 1, 2),
         Rep({".", "/"}, 0, 1), Rep(Digits, 2, 4)>>,
       <<Rep(Digits, 1, 2), AtLeast(Whitespace, 0), Group(Months),
         AtLeast(Whitespace, 0), Rep(Digits, 2, 4)>> >>

\* turkish_keywords['date_patterns']
date_patterns ==
    << <<Rep(Digits, 1, 2), Rep({".", "/"}, 1, 1), Rep(Digits, 1, 2),
         Rep({".", "/"}, 1, 1), Rep(Digits, 2, 4)>>,
       <<Rep(Digits, 1, 2), AtLeast(Whitespace, 0), Group(Months),
         AtLeast(Whitespace, 0), Rep(Digits, 2, 4)>> >>

\* turkish_keywords['amount_patterns']
amount_patterns ==
    << <<AtLeast(Digits, 1), Rep({".", ","}, 1, 1), Rep(Digits, 2, 2),
         AtLeast(Whitespace, 0), Group(Currency)>>,
       <<AtLeast(Digits, 1), AtLeast(Whitespace, 0), Group(Currency)>>,
       <<AtLeast(Digits, 1), Rep({".", ","}, 1, 1), Rep(Digits, 2, 2)>> >>

\* turkish_keywords['item_keywords']
item_keywords ==
    << <<"s", "u-umlaut", "t">>,
       <<"e", "k", "m", "e", "k">>,
       <<"p", "e", "y", "n", "i", "r">>,
       <<"d", "o", "m", "a", "t", "e", "s">>,
       <<"p", "a", "t", "a", "t", "e", "s">>,
       <<"s", "o", "g-breve", "a", "n">>,
       <<"e", "l", "m", "a">>,
       <<"m", "u", "z">>,
       <<"t", "a", "v", "u", "k">>,
       <<"e", "t">>,
       <<"b", "a", "l", "dotless-i", "k">>,
       <<"y", "u", "m", "u", "r", "t", "a">>,
       <<"y", "o", "g-breve", "u", "r", "t">>,
       <<"t", "e", "r", "e", "y", "a", "g-breve", "dotless-i">>,
       <<"z", "e", "y", "t", "i", "n", "y", "a", "g-breve", "dotless-i">>,
       <<"p", "i", "r", "i", "n", "c-cedilla">>,
       <<"m", "a", "k", "a", "r", "n", "a">>,
       <<"f", "a", "s", "u", "l", "y", "e">>,
       <<"m", "e", "r", "c", "i", "m", "e", "k">>,
       <<"b", "u", "l", "g", "u", "r">>,
       <<"s-cedilla", "e", "k", "e", "r">>,
       <<"t", "u", "z">>,
       <<"c-cedilla", "a", "y">>,
       <<"k", "a", "h", "v", "e">>,
       <<"s", "u">>,
       <<"m", "e", "y", "v", "e">>,
       <<"s", "e", "b", "z", "e">>,
       <<"k", "a", "r", "n", "a", "b", "a", "h", "a", "r">>,
       <<"h", "a", "v", "u", "c-cedilla">>,
       <<"b", "i", "b", "e", "r">> >>

\* turkish_keywords['quantity_keywords']
quantity_keywords ==
    << <<"k", "g">>,
       <<"g", "r">>,
       <<"l", "t">>,
       <<"a", "d", "e", "t">>,
       <<"p", "a", "k", "e", "t">>,
       <<"k", "u", "t", "u">> >>

\* qty_pattern without the \s* between number and unit
qty_pattern_noblank(qty_keyword) ==
    <<AtLeast(Digits, 1), Rep({".", ","}, 0, 1), AtLeast(Digits, 0),
      Literal(qty_keyword)>>

\* rf'\d+[.,]?\d*\s*{qty_keyword}'
qty_pattern(qty_keyword) ==
    <<AtLeast(Digits, 1), Rep({".", ","}, 0, 1), AtLeast(Digits, 0),
      AtLeast(Whitespace, 0), Literal(qty_keyword)>>

(***************************************************************************)
(* The matcher: Python's backtracking search, flags=re.IGNORECASE.         *)
(***************************************************************************)
NoMatch == [start |-> -1, end |-> -1, gs |-> -1, ge |-> -1]

\* the word w stands at offset pos of s, letter case ignored
LitAt(w, s, pos) ==
    /\ pos + Len(w) <= Len(s)
    /\ \A i \in 1..Len(w) : LowerChar(s[pos + i]) = w[i]

RECURSIVE RunLen(_, _, _)
\* how many characters from offset pos on the element e could consume
RunLen(e, s, pos) ==
    IF pos < Len(s) /\ s[pos + 1] \in e.set
    THEN LET n == 1 + RunLen(e, s, pos + 1)
         IN  IF ~e.unb /\ n > e.max THEN e.max ELSE n
    ELSE 0

RECURSIVE MatchHere(_, _, _, _)
RECURSIVE TryCount(_, _, _, _, _)
RECURSIVE TryAlt(_, _, _, _, _)

\* elements k.. of pat matched at offset pos: the first match in the
\* engine's order (greedy repetitions, alternatives left to right)
MatchHere(pat, k, s, pos) ==
    IF k > Len(pat) THEN [start |-> -1, end |-> pos, gs |-> -1, ge |-> -1]
    ELSE IF pat[k].k = "cls"
    THEN LET avail == RunLen(pat[k], s, pos)
         IN  TryCount(pat, k, s, pos, avail)
    ELSE TryAlt(pat, k, s, pos, 1)

\* the repetition takes n characters, then n-1, ... down to its minimum
TryCount(pat, k, s, pos, n) ==
    IF n < pat[k].min THEN NoMatch
    ELSE LET r == MatchHere(pat, k + 1, s, pos + n)
         IN  IF r.end >= 0 THEN r ELSE TryCount(pat, k, s, pos, n - 1)

\* alternative j, then j+1, ...
TryAlt(pat, k, s, pos, j) ==
    IF j > Len(pat[k].alts) THEN NoMatch
    ELSE LET w == pat[k].alts[j]
             r == IF LitAt(w, s, pos)
                  THEN MatchHere(pat, k + 1, s, pos + Len(w))
                  ELSE NoMatch
         IN  IF r.end >= 0
             THEN IF pat[k].grp
                  THEN [r EXCEPT !.gs = pos, !.ge = pos + Len(w)]
                  ELSE r
             ELSE TryAlt(pat, k, s, pos, j + 1)

RECURSIVE Scan(_, _, _)
\* the non-overlapping matches of pat in s from offset pos on, left to right
Scan(pat, s, pos) ==
    IF pos > Len(s) THEN <<>>
    ELSE LET m == MatchHere(pat, 1, s, pos)
         IN  IF m.end >= 0
             THEN <<[m EXCEPT !.start = pos]>>
                  \o Scan(pat, s, IF m.end > pos THEN m.end ELSE pos + 1)
             ELSE Scan(pat, s, pos + 1)

\* re.finditer(pattern, s, re.IGNORECASE)
finditer(pat, s) == Scan(pat, s, 0)

HasGroup(pat) == \E k \in 1..Len(pat) : pat[k].grp

\* match.group()
group0(m, s) == SubSeq(s, m.start + 1, m.end)

\* re.findall(pattern, s, re.IGNORECASE): with one capturing group in the
\* pattern the list holds the group's text, else the whole match
findall(pat, s) ==
    LET ms == finditer(pat, s)
    IN  [i \in 1..Len(ms) |->
            IF HasGroup(pat)
            THEN SubSeq(s, ms[i].gs + 1, ms[i].ge)
            ELSE group0(ms[i], s)]

RECURSIVE Flatten(_)
\* list.extend over a sequence of lists
Flatten(ss) == IF ss = <<>> THEN <<>> ELSE Head(ss) \o Flatten(Tail(ss))

(***************************************************************************)
(* BillOCR.extract_dates                                                   *)
(***************************************************************************)
extract_dates(s) ==
    Flatten([p \in 1..Len(date_patterns) |-> findall(date_patterns[p], s)])

(***************************************************************************)
(* BillOCR.extract_amounts                                                 *)
(***************************************************************************)
\* amount_clean that removes the blanks only
amount_clean_blanks(amount_str) ==
    SelectSeq(amount_str, LAMBDA c : c \notin Whitespace)

\* re.sub(r'[^\d.,]', '', amount_str)
amount_clean(amount_str) ==
    SelectSeq(amount_str, LAMBDA c : c \in Digits \cup {".", ","})

\* the entries one pattern contributes
amounts_of(pat, s) ==
    LET ms  == finditer(pat, s)
        all == [i \in 1..Len(ms) |->
                  [original |-> group0(ms[i], s),
                   value    |-> amount_clean(group0(ms[i], s)),
                   position |-> <<ms[i].start, ms[i].end>>]]
    IN  SelectSeq(all, LAMBDA a : a.value # <<>>)

RECURSIVE DropOverlapping(_, _)
\* the entries of all whose span meets no span of an entry already kept
DropOverlapping(all, kept) ==
    IF all = <<>> THEN kept
    ELSE LET a == Head(all)
             clash == \E i \in 1..Len(kept) :
                          /\ a.position[1] < kept[i].position[2]
                          /\ kept[i].position[1] < a.position[2]
         IN  DropOverlapping(Tail(all), IF clash THEN kept ELSE Append(kept, a))

\* extract_amounts that drops a match overlapping an earlier one
extract_amounts_dedup(s) ==
    DropOverlapping(
        Flatten([p \in 1..Len(amount_patterns) |-> amounts_of(amount_patterns[p], s)]),
        <<>>)

extract_amounts(s) ==
    Flatten([p \in 1..Len(amount_patterns) |-> amounts_of(amount_patterns[p], s)])

(***************************************************************************)
(* BillOCR.extract_items                                                   *)
(***************************************************************************)
RECURSIVE split(_)
\* text.split('\n')
split(s) ==
    IF \E i \in 1..Len(s) : s[i] = "\n"
    THEN LET i == CHOOSE j \in 1..Len(s) :
                     s[j] = "\n" /\ \A h \in 1..(j - 1) : s[h] # "\n"
         IN  <<SubSeq(s, 1, i - 1)>> \o split(SubSeq(s, i + 1, Len(s)))
    ELSE <<s>>

\* str.strip()
strip(s) ==
    LET keep == {i \in 1..Len(s) : s[i] \notin Whitespace}
    IN  IF keep = {} THEN <<>>
        ELSE LET lo == CHOOSE i \in keep : \A j \in keep : i <= j
                 hi == CHOOSE i \in keep : \A j \in keep : j <= i
             IN  SubSeq(s, lo, hi)

\* Contains matching whole words only: no letter next to the keyword
Contains_word(line, keyword) ==
    \E pos \in 0..(Len(line) - Len(keyword)) :
        /\ \A i \in 1..Len(keyword) : line[pos + i] = keyword[i]
        /\ pos > 0 => line[pos] \in Whitespace \cup Digits
        /\ pos + Len(keyword) < Len(line) =>
              line[pos + Len(keyword) + 1] \in Whitespace \cup Digits

\* keyword in line
Contains(line, keyword) ==
    \E pos \in 0..(Len(line) - Len(keyword)) :
        \A i \in 1..Len(keyword) : line[pos + i] = keyword[i]

\* the keyword loop of one line
found_items(line) == SelectSeq(item_keywords, LAMBDA kw : Contains(line, kw))

\* the quantity loop of one line
quantities_of(line) ==
    Flatten([q \in 1..Len(quantity_keywords) |->
                findall(qty_pattern(quantity_keywords[q]), line)])

RECURSIVE items_of_lines_prepend(_)
\* the loop with items.insert(0, ...) for items.append(...)
items_of_lines_prepend(lines) ==
    IF lines = <<>> THEN <<>>
    ELSE LET line == Lower(strip(Head(lines)))
             rest == items_of_lines_prepend(Tail(lines))
         IN  IF line = <<>> THEN rest
             ELSE IF found_items(line) # <<>>
             THEN rest \o <<[line       |-> line,
                             items      |-> found_items(line),
                             quantities |-> quantities_of(line),
                             amounts    |-> extract_amounts(line)]>>
             ELSE rest

RECURSIVE items_of_lines_rawamounts(_)
\* the loop taking the amounts from the line as it stands in the text
items_of_lines_rawamounts(lines) ==
    IF lines = <<>> THEN <<>>
    ELSE LET line == Lower(strip(Head(lines)))
             rest == items_of_lines_rawamounts(Tail(lines))
         IN  IF line = <<>> THEN rest
             ELSE IF found_items(line) # <<>>
             THEN <<[line       |-> line,
                     items      |-> found_items(line),
                     quantities |-> quantities_of(line),
                     amounts    |-> extract_amounts(Head(lines))]>> \o rest
             ELSE rest

RECURSIVE items_of_lines(_)
\* the loop over the lines
items_of_lines(lines) ==
    IF lines = <<>> THEN <<>>
    ELSE LET line == Lower(strip(Head(lines)))
             rest == items_of_lines(Tail(lines))
         IN  IF line = <<>> THEN rest
             ELSE IF found_items(line) # <<>>
             THEN <<[line       |-> line,
                     items      |-> found_items(line),
                     quantities |-> quantities_of(line),
                     amounts    |-> extract_amounts(line)]>> \o rest
             ELSE rest

extract_items(s) == items_of_lines(split(s))

(***************************************************************************)
(* BillOCR.calculate_total.  A number is n / 10^d, kept exactly.           *)
(***************************************************************************)
DigitChars == <<"0", "1", "2", "3", "4", "5", "6", "7", "8", "9">>

DigitVal(c) == (CHOOSE i \in 1..Len(DigitChars) : DigitChars[i] = c) - 1

RECURSIVE IntOf(_)
\* the number a digit string denotes ("" denotes 0)
IntOf(ds) ==
    IF ds = <<>> THEN 0
    ELSE 10 * IntOf(SubSeq(ds, 1, Len(ds) - 1)) + DigitVal(ds[Len(ds)])

\* value.replace(',', '.')
replace_comma(value) == [i \in 1..Len(value) |-> IF value[i] = "," THEN "." ELSE value[i]]

\* float(value_str), for strings without sign, exponent, underscore or blank:
\* digits with at most one point and at least one digit; anything else is
\* a ValueError (ok = FALSE)
float(value_str) ==
    LET points == {i \in 1..Len(value_str) : value_str[i] = "."}
        digits == SelectSeq(value_str, LAMBDA c : c \in Digits)
        wellformed ==
            /\ \A i \in 1..Len(value_str) : value_str[i] \in Digits \cup {"."}
            /\ Cardinality(points) <= 1
            /\ digits # <<>>
    IN  IF ~wellformed THEN [ok |-> FALSE, n |-> 0, d |-> 0]
        ELSE IF points = {} THEN [ok |-> TRUE, n |-> IntOf(digits), d |-> 0]
        ELSE LET p == CHOOSE i \in points : TRUE
             IN  [ok |-> TRUE, n |-> IntOf(digits), d |-> Len(value_str) - p]

RECURSIVE Pow10(_)
Pow10(k) == IF k = 0 THEN 1 ELSE 10 * Pow10(k - 1)

\* total += value
add(a, b) ==
    LET d == IF a.d >= b.d THEN a.d ELSE b.d
    IN  [n |-> a.n * Pow10(d - a.d) + b.n * Pow10(d - b.d), d |-> d]

RECURSIVE Norm(_)
\* the same number with no trailing zero after the point
Norm(a) == IF a.d > 0 /\ a.n % 10 = 0 THEN Norm([n |-> a.n \div 10, d |-> a.d - 1]) ELSE a

None == [none |-> TRUE, n |-> 0, d |-> 0]

Some(a) == [none |-> FALSE, n |-> Norm(a).n, d |-> Norm(a).d]

RECURSIVE sum_loop(_, _)
\* the loop: a value that does not parse is skipped
sum_loop(amts, acc) ==
    IF amts = <<>> THEN acc
    ELSE LET value == float(replace_comma(Head(amts).value))
         IN  IF value.ok
             THEN sum_loop(Tail(amts), add(acc, [n |-> value.n, d |-> value.d]))
             ELSE sum_loop(Tail(amts), acc)

\* calculate_total with "total >= 0" for "total > 0"
calculate_total_nonneg(amts) ==
    LET t == sum_loop(amts, [n |-> 0, d |-> 0])
    IN  IF t.n >= 0 THEN Some(t) ELSE None

calculate_total(amts) ==
    LET t == sum_loop(amts, [n |-> 0, d |-> 0])
    IN  IF t.n > 0 THEN Some(t) ELSE None

(***************************************************************************)
(* Inputs.  A text is up to MaxTokens fragments of bill text put together, *)
(* or one of the texts the specification names.                            *)
(***************************************************************************)
MaxTokens == 3

MaxAmounts == 2

Tokens ==
    << <<"1", "2">>,
       <<",", "5", "0">>,
       <<" ", "t", "l">>,
       <<"\n">>,
       <<"e", "t", " ">>,
       <<"S", "u">>,
       <<"2", " ", "k", "g", " ">>,
       <<"1", " ", "g", "r", " ">>,
       <<"1", ".", "5", ".", "2", "4">>,
       <<"5", " ", "m", "a", "r", "t", " ", "2", "4">> >>

ExampleTexts ==
    { <<>>,
      <<"e", "k", "m", "e", "k", " ", "s", "u-umlaut", "t", " ", "2", " ", "a", "d", "e", "t", " ", "1", " ", "k", "g", "\n", "f", "a", "t", "u", "r", "a", " ", "n", "o", ":", " ", "7">>,
      <<"1", "2", ",", "5", "0", " ", "t", "l">>,
      <<"2", " ", "k", "g", " ", "d", "o", "m", "a", "t", "e", "s", " ", "1", "5", ",", "0", "0", " ", "t", "l", "\n", "h", "e", "l", "l", "o", " ", "w", "o", "r", "l", "d">>,
      <<"5", " ", "m", "a", "r", "t", " ", "2", "0", "2", "4">>,
      <<"1", "2", ".", "0", "5", ".", "2", "0", "2", "4", " ", "f", "a", "t", "u", "r", "a", " ", "n", "o", ":", " ", "1", "2", "3">>,
      <<"e", "k", "m", "e", "k", " ", "s", "u-umlaut", "t", " ", "2", " ", "a", "d", "e", "t", " ", "1", " ", "k", "g">> }

TokenTexts ==
    UNION {{Flatten([i \in 1..k |-> Tokens[f[i]]]) : f \in [1..k -> 1..Len(Tokens)]} :
           k \in 0..MaxTokens}

Texts == TokenTexts \cup ExampleTexts

\* value strings handed to calculate_total directly
Values ==
    { <<>>,
      <<"0">>,
      <<"1", "0", ",", "5", "0">>,
      <<"5", ".", "2", "5">>,
      <<"1", ",", "2", ",", "3">>,
      <<".">>,
      <<"1", ".">>,
      <<",", "5">>,
      <<"1", "x">> }

AmountLists ==
    UNION {[1..k -> {[original |-> v, value |-> v, position |-> <<0, Len(v)>>] : v \in Values}] :
           k \in 0..MaxAmounts}

\* self.turkish_keywords as BillOCR.__init__ builds it
Library ==
    [date_patterns     |-> date_patterns,
     amount_patterns   |-> amount_patterns,
     item_keywords     |-> item_keywords,
     quantity_keywords |-> quantity_keywords]

\* no request handler is calling the instance
SharedIdle ==
    /\ turkish_keywords = Library
    /\ calls = <<>>

\* no image is being read
OcrIdle ==
    /\ available = [tesseract |-> TRUE, easyocr |-> TRUE]
    /\ image = [preprocess_raises |-> FALSE,
                tesseract |-> [raises |-> FALSE, text |-> <<>>],
                easyocr   |-> [raises |-> FALSE, results |-> <<>>]]
    /\ text_tesseract = <<>>
    /\ text_easyocr = <<>>

\* the simple HTTP server is handling no request
ServerIdle ==
    /\ request = [content_type |-> "", content_length |-> "missing",
                  malformed |-> FALSE, has_file |-> FALSE, filename |-> <<>>]
    /\ srv_pc = "idle"
    /\ responses = <<>>
    /\ temp_files = {}
    /\ temp_path = <<>>
    /\ result = [success |-> FALSE, encodable |-> TRUE]
    /\ exc = FALSE

(***************************************************************************)
(* The extraction part of BillOCR.process_bill on a combined text, one     *)
(* step per call.                                                          *)
(***************************************************************************)
Init ==
    /\ text \in Texts
    /\ pc = "extract_dates"
    /\ dates = <<>>
    /\ amounts = <<>>
    /\ items = <<>>
    /\ total = None
    /\ item_count = 0
    /\ SharedIdle
    /\ OcrIdle
    /\ ServerIdle

\* dates = self.extract_dates(combined_text)
ExtractDates ==
    /\ pc = "extract_dates"
    /\ dates' = extract_dates(text)
    /\ pc' = "extract_amounts"
    /\ UNCHANGED <<text, amounts, items, total, item_count>>
    /\ UNCHANGED <<shared_vars, ocr_vars, server_vars>>

\* amounts = self.extract_amounts(combined_text)
ExtractAmounts ==
    /\ pc = "extract_amounts"
    /\ amounts' = extract_amounts(text)
    /\ pc' = "extract_items"
    /\ UNCHANGED <<text, dates, items, total, item_count>>
    /\ UNCHANGED <<shared_vars, ocr_vars, server_vars>>

\* items = self.extract_items(combined_text)
ExtractItems ==
    /\ pc = "extract_items"
    /\ items' = extract_items(text)
    /\ pc' = "calculate_total"
    /\ UNCHANGED <<text, dates, amounts, total, item_count>>
    /\ UNCHANGED <<shared_vars, ocr_vars, server_vars>>

\* the amounts of the item lines, in order
ItemAmounts(its) == Flatten([i \in 1..Len(its) |-> its[i].amounts])

\* CalculateTotal summing the item lines' amounts
CalculateTotal_ItemScoped ==
    /\ pc = "calculate_total"
    /\ total' = calculate_total(ItemAmounts(items))
    /\ pc' = "return"
    /\ UNCHANGED <<text, dates, amounts, items, item_count>>
    /\ UNCHANGED <<shared_vars, ocr_vars, server_vars>>

\* total = self.calculate_total(amounts)
CalculateTotal ==
    /\ pc = "calculate_total"
    /\ total' = calculate_total(amounts)
    /\ pc' = "return"
    /\ UNCHANGED <<text, dates, amounts, items, item_count>>
    /\ UNCHANGED <<shared_vars, ocr_vars, server_vars>>

\* Return counting the distinct item keywords matched
Return_DistinctKeywords ==
    /\ pc = "return"
    /\ item_count' = Cardinality(UNION {{items[i].items[j] : j \in 1..Len(items[i].items)} :
                                         i \in 1..Len(items)})
    /\ pc' = "done"
    /\ UNCHANGED <<text, dates, amounts, items, total>>
    /\ UNCHANGED <<shared_vars, ocr_vars, server_vars>>

\* return {... 'total_calculated': total, 'item_count': len(items)}
Return ==
    /\ pc = "return"
    /\ item_count' = Len(items)
    /\ pc' = "done"
    /\ UNCHANGED <<text, dates, amounts, items, total>>
    /\ UNCHANGED <<shared_vars, ocr_vars, server_vars>>

Next == ExtractDates \/ ExtractAmounts \/ ExtractItems \/ CalculateTotal \/ Return

Spec == Init /\ [][Next]_vars

(***************************************************************************)
(* calculate_total applied to any list of AmountMatch records.             *)
(***************************************************************************)
TotalInit ==
    /\ text = <<>>
    /\ pc = "calculate_total"
    /\ dates = <<>>
    /\ amounts \in AmountLists
    /\ items = <<>>
    /\ total = None
    /\ item_count = 0
    /\ SharedIdle
    /\ OcrIdle
    /\ ServerIdle

TotalNext == CalculateTotal \/ Return

SpecTotal == TotalInit /\ [][TotalNext]_vars

(***************************************************************************)
(* Request handlers calling the single shared BillOCR instance             *)
(* (ocr_processor).  Every extraction method reads the pattern library     *)
(* from the instance, self.turkish_keywords, at the time it runs; the      *)
(* operators below are the methods with that library as an argument.       *)
(***************************************************************************)
NumHandlers == 2

Handlers == 1..NumHandlers

\* what datetime.now() may give
Timestamps == {0, 1}

\* the combined texts the handlers' images give
SharedTexts ==
    { <<"1", ".", "5", ".", "2", "4", "\n", "e", "t", " ", "1", "2", ",", "5", "0", " ", "t", "l">>,
      <<"S", "u", " ", "2", " ", "k", "g", " ", "1", "2", " ", "t", "l">>,
      <<"5", " ", "m", "a", "r", "t", " ", "2", "4", " ", "s", "u-umlaut", "t">> }

\* for pattern in self.turkish_keywords['date_patterns']: ...
extract_dates_on(kw, s) ==
    Flatten([p \in 1..Len(kw.date_patterns) |-> findall(kw.date_patterns[p], s)])

\* for pattern in self.turkish_keywords['amount_patterns']: ...
extract_amounts_on(kw, s) ==
    Flatten([p \in 1..Len(kw.amount_patterns) |-> amounts_of(kw.amount_patterns[p], s)])

\* for keyword in self.turkish_keywords['item_keywords']: ...
found_items_on(kw, line) == SelectSeq(kw.item_keywords, LAMBDA k : Contains(line, k))

\* for qty_keyword in self.turkish_keywords['quantity_keywords']: ...
quantities_on(kw, line) ==
    Flatten([q \in 1..Len(kw.quantity_keywords) |->
                findall(qty_pattern(kw.quantity_keywords[q]), line)])

RECURSIVE items_of_lines_on(_, _)
\* the loop over the lines
items_of_lines_on(kw, lines) ==
    IF lines = <<>> THEN <<>>
    ELSE LET line == Lower(strip(Head(lines)))
             rest == items_of_lines_on(kw, Tail(lines))
         IN  IF line = <<>> THEN rest
             ELSE IF found_items_on(kw, line) # <<>>
             THEN <<[line       |-> line,
                     items      |-> found_items_on(kw, line),
                     quantities |-> quantities_on(kw, line),
                     amounts    |-> extract_amounts_on(kw, line)]>> \o rest
             ELSE rest

extract_items_on(kw, s) == items_of_lines_on(kw, split(s))

\* the locals of a call that has its combined text and has extracted nothing
NewCall(t) ==
    [text |-> t, pc |-> "extract_dates", dates |-> <<>>, amounts |-> <<>>,
     items |-> <<>>, total |-> None, item_count |-> 0, timestamp |-> 0]

\* no single run of the extraction is under way
CoreIdle ==
    /\ text = <<>>
    /\ pc = "idle"
    /\ dates = <<>>
    /\ amounts = <<>>
    /\ items = <<>>
    /\ total = None
    /\ item_count = 0

core_vars == <<text, pc, dates, amounts, items, total, item_count>>

SharedInit ==
    /\ turkish_keywords = Library
    /\ calls \in [Handlers -> {NewCall(t) : t \in SharedTexts}]
    /\ CoreIdle
    /\ OcrIdle
    /\ ServerIdle

\* extract_dates emptying the shared pattern list as it goes through it
CallExtractDates_Consuming(h) ==
    /\ calls[h].pc = "extract_dates"
    /\ calls' = [calls EXCEPT ![h].dates = extract_dates_on(turkish_keywords, calls[h].text),
                              ![h].pc = "extract_amounts"]
    /\ turkish_keywords' = [turkish_keywords EXCEPT !.date_patterns = <<>>]
    /\ UNCHANGED <<core_vars, ocr_vars, server_vars>>

\* dates = self.extract_dates(combined_text), in handler h
CallExtractDates(h) ==
    /\ calls[h].pc = "extract_dates"
    /\ calls' = [calls EXCEPT ![h].dates = extract_dates_on(turkish_keywords, calls[h].text),
                              ![h].pc = "extract_amounts"]
    /\ UNCHANGED <<turkish_keywords, core_vars, ocr_vars, server_vars>>

\* extract_amounts emptying the shared pattern list as it goes through it
CallExtractAmounts_Consuming(h) ==
    /\ calls[h].pc = "extract_amounts"
    /\ calls' = [calls EXCEPT ![h].amounts = extract_amounts_on(turkish_keywords, calls[h].text),
                              ![h].pc = "extract_items"]
    /\ turkish_keywords' = [turkish_keywords EXCEPT !.amount_patterns = <<>>]
    /\ UNCHANGED <<core_vars, ocr_vars, server_vars>>

\* amounts = self.extract_amounts(combined_text), in handler h
CallExtractAmounts(h) ==
    /\ calls[h].pc = "extract_amounts"
    /\ calls' = [calls EXCEPT ![h].amounts = extract_amounts_on(turkish_keywords, calls[h].text),
                              ![h].pc = "extract_items"]
    /\ UNCHANGED <<turkish_keywords, core_vars, ocr_vars, server_vars>>

\* items = self.extract_items(combined_text), in handler h
CallExtractItems(h) ==
    /\ calls[h].pc = "extract_items"
    /\ calls' = [calls EXCEPT ![h].items = extract_items_on(turkish_keywords, calls[h].text),
                              ![h].pc = "calculate_total"]
    /\ UNCHANGED <<turkish_keywords, core_vars, ocr_vars, server_vars>>

\* total = self.calculate_total(amounts), in handler h
CallCalculateTotal(h) ==
    /\ calls[h].pc = "calculate_total"
    /\ calls' = [calls EXCEPT ![h].total = calculate_total(calls[h].amounts),
                              ![h].pc = "return"]
    /\ UNCHANGED <<turkish_keywords, core_vars, ocr_vars, server_vars>>

\* return {..., 'item_count': len(items), ..., 'timestamp': datetime.now()}
CallReturn(h) ==
    /\ calls[h].pc = "return"
    /\ \E t \in Timestamps :
          calls' = [calls EXCEPT ![h].item_count = Len(calls[h].items),
                                 ![h].timestamp = t,
                                 ![h].pc = "done"]
    /\ UNCHANGED <<turkish_keywords, core_vars, ocr_vars, server_vars>>

SharedNext ==
    \E h \in Handlers :
        \/ CallExtractDates(h)
        \/ CallExtractAmounts(h)
        \/ CallExtractItems(h)
        \/ CallCalculateTotal(h)
        \/ CallReturn(h)

SpecShared == SharedInit /\ [][SharedNext]_vars

(***************************************************************************)
(* BillOCR.process_bill from the image on: preprocessing, the two OCR      *)
(* engines, the combined text, then the extraction steps above.  An image  *)
(* is what it makes each of the three do.                                  *)
(***************************************************************************)
\* the texts pytesseract.image_to_string may give
TesseractTexts ==
    { <<>>,
      <<"1", "2", ",", "5", "0", " ", "t", "l", "\n">>,
      <<"e", "t", " ", "2", " ", "k", "g">> }

\* the result[1] lists reader.readtext may give
EasyocrResults ==
    { <<>>,
      << <<"1", ".", "5", ".", "2", "4">> >>,
      << <<"S", "u">>, <<"1", "2", " ", "t", "l">> >> }

Images ==
    [preprocess_raises : BOOLEAN,
     tesseract : [raises : BOOLEAN, text : TesseractTexts],
     easyocr   : [raises : BOOLEAN, results : EasyocrResults]]

RECURSIVE join(_)
\* ' '.join(...)
join(rs) ==
    IF rs = <<>> THEN <<>>
    ELSE IF Tail(rs) = <<>> THEN Head(rs)
    ELSE Head(rs) \o <<" ">> \o join(Tail(rs))

\* the import block: both flags are set together
BillInit ==
    /\ available \in {[tesseract |-> TRUE, easyocr |-> TRUE],
                      [tesseract |-> FALSE, easyocr |-> FALSE]}
    /\ image \in Images
    /\ text_tesseract = <<>>
    /\ text_easyocr = <<>>
    /\ text = <<>>
    /\ pc = "preprocess_image"
    /\ dates = <<>>
    /\ amounts = <<>>
    /\ items = <<>>
    /\ total = None
    /\ item_count = 0
    /\ SharedIdle
    /\ ServerIdle

\* preprocessed = self.preprocess_image(image); an error of cv2 is not caught
PreprocessImage ==
    /\ pc = "preprocess_image"
    /\ pc' = IF image.preprocess_raises THEN "raised" ELSE "extract_text_tesseract"
    /\ UNCHANGED <<text, dates, amounts, items, total, item_count>>
    /\ UNCHANGED <<shared_vars, ocr_vars, server_vars>>

\* extract_text_tesseract letting the engine's exception through
ExtractTextTesseract_Propagating ==
    /\ pc = "extract_text_tesseract"
    /\ IF available.tesseract /\ image.tesseract.raises
       THEN pc' = "raised" /\ UNCHANGED text_tesseract
       ELSE /\ text_tesseract' = IF available.tesseract THEN image.tesseract.text ELSE <<>>
            /\ pc' = "extract_text_easyocr"
    /\ UNCHANGED <<text, dates, amounts, items, total, item_count>>
    /\ UNCHANGED <<shared_vars, available, image, text_easyocr, server_vars>>

\* text_tesseract = self.extract_text_tesseract(preprocessed)
ExtractTextTesseract ==
    /\ pc = "extract_text_tesseract"
    /\ text_tesseract' =
          IF ~available.tesseract THEN <<>>
          ELSE IF image.tesseract.raises THEN <<>>
          ELSE image.tesseract.text
    /\ pc' = "extract_text_easyocr"
    /\ UNCHANGED <<text, dates, amounts, items, total, item_count>>
    /\ UNCHANGED <<shared_vars, available, image, text_easyocr, server_vars>>

\* text_easyocr = self.extract_text_easyocr(preprocessed)
ExtractTextEasyocr ==
    /\ pc = "extract_text_easyocr"
    /\ text_easyocr' =
          IF ~available.easyocr THEN <<>>
          ELSE IF image.easyocr.raises THEN <<>>
          ELSE join(image.easyocr.results)
    /\ pc' = "combine"
    /\ UNCHANGED <<text, dates, amounts, items, total, item_count>>
    /\ UNCHANGED <<shared_vars, available, image, text_tesseract, server_vars>>

\* combined_text = f"{text_tesseract}\n{text_easyocr}"
Combine ==
    /\ pc = "combine"
    /\ text' = text_tesseract \o <<"\n">> \o text_easyocr
    /\ pc' = "extract_dates"
    /\ UNCHANGED <<dates, amounts, items, total, item_count>>
    /\ UNCHANGED <<shared_vars, ocr_vars, server_vars>>

BillNext ==
    \/ PreprocessImage
    \/ ExtractTextTesseract
    \/ ExtractTextEasyocr
    \/ Combine
    \/ ExtractDates
    \/ ExtractAmounts
    \/ ExtractItems
    \/ CalculateTotal
    \/ Return

SpecBill == BillInit /\ [][BillNext]_vars

(***************************************************************************)
(* BillAnalysisHandler.handle_bill_analysis of the simple HTTP server      *)
(* (backend/simple_server.py), one step per statement that can end the     *)
(* handler or raise.  A response is a status line with its headers and     *)
(* whether its body followed; temp_files is what the handler has left in   *)
(* the temporary directory.                                                *)
(***************************************************************************)
\* Content-Type headers: '' is the default of headers.get
ContentTypes == {"", "application/json", "multipart/form-data; boundary=B"}

\* content_type.startswith('multipart/form-data')
IsMultipart(ct) == ct = "multipart/form-data; boundary=B"

\* Content-Length headers by what int(...) makes of them
ContentLengths == {"missing", "zero", "positive", "invalid"}

Filenames ==
    { <<>>,
      <<"A", ".", "J", "P", "G">>,
      <<"a", ".", "g", "i", "f">>,
      <<"a", ".", "t", "i", "f", "f">> }

Requests ==
    [content_type : ContentTypes, content_length : ContentLengths,
     malformed : BOOLEAN, has_file : BOOLEAN, filename : Filenames]

allowed_extensions ==
    << <<".", "j", "p", "g">>, <<".", "j", "p", "e", "g">>, <<".", "p", "n", "g">>,
       <<".", "b", "m", "p">>, <<".", "t", "i", "f", "f">> >>

\* filename.endswith(ext)
endswith(w, ext) ==
    Len(ext) <= Len(w) /\ SubSeq(w, Len(w) - Len(ext) + 1, Len(w)) = ext

\* what analyze_bill may return: its success flag, and whether the text of
\* the result can be encoded as UTF-8 (a lone surrogate from a \ud800
\* escape in the model's JSON cannot)
Results == [success : BOOLEAN, encodable : BOOLEAN]

\* the responses after send_simple_response(status_code, data): the status
\* line and headers go out at end_headers, the body only if
\* response_data.encode('utf-8') does not raise
Sent(status_code, encodable) ==
    Append(responses, [status |-> status_code, body |-> encodable])

ServerInit ==
    /\ request \in Requests
    /\ srv_pc = "content_type"
    /\ responses = <<>>
    /\ temp_files = {}
    /\ temp_path = <<>>
    /\ result = [success |-> FALSE, encodable |-> TRUE]
    /\ exc = FALSE
    /\ CoreIdle
    /\ SharedIdle
    /\ OcrIdle

\* if not content_type.startswith('multipart/form-data'): 400
CheckContentType ==
    /\ srv_pc = "content_type"
    /\ IF IsMultipart(request.content_type)
       THEN srv_pc' = "content_length" /\ UNCHANGED responses
       ELSE srv_pc' = "returned" /\ responses' = Sent(400, TRUE)
    /\ UNCHANGED <<request, temp_files, temp_path, result, exc>>
    /\ UNCHANGED <<core_vars, shared_vars, ocr_vars>>

\* content_length = int(...): ValueError, or 400 if it is 0
CheckContentLength ==
    /\ srv_pc = "content_length"
    /\ CASE request.content_length = "invalid" ->
              srv_pc' = "except" /\ exc' = TRUE /\ UNCHANGED responses
         [] request.content_length \in {"missing", "zero"} ->
              srv_pc' = "returned" /\ responses' = Sent(400, TRUE) /\ UNCHANGED exc
         [] OTHER ->
              srv_pc' = "form" /\ UNCHANGED <<responses, exc>>
    /\ UNCHANGED <<request, temp_files, temp_path, result>>
    /\ UNCHANGED <<core_vars, shared_vars, ocr_vars>>

\* form_data = cgi.FieldStorage(...), which raises on a malformed body
ParseForm ==
    /\ srv_pc = "form"
    /\ IF request.malformed
       THEN srv_pc' = "except" /\ exc' = TRUE
       ELSE srv_pc' = "file_field" /\ UNCHANGED exc
    /\ UNCHANGED <<request, responses, temp_files, temp_path, result>>
    /\ UNCHANGED <<core_vars, shared_vars, ocr_vars>>

\* if 'file' not in form_data: 400
CheckFileField ==
    /\ srv_pc = "file_field"
    /\ IF request.has_file
       THEN srv_pc' = "filename" /\ UNCHANGED responses
       ELSE srv_pc' = "returned" /\ responses' = Sent(400, TRUE)
    /\ UNCHANGED <<request, temp_files, temp_path, result, exc>>
    /\ UNCHANGED <<core_vars, shared_vars, ocr_vars>>

\* if not file_item.filename: 400
CheckFilename ==
    /\ srv_pc = "filename"
    /\ IF request.filename # <<>>
       THEN srv_pc' = "extension" /\ UNCHANGED responses
       ELSE srv_pc' = "returned" /\ responses' = Sent(400, TRUE)
    /\ UNCHANGED <<request, temp_files, temp_path, result, exc>>
    /\ UNCHANGED <<core_vars, shared_vars, ocr_vars>>

\* if not any(filename.endswith(ext) for ext in allowed_extensions): 400
CheckExtension ==
    /\ srv_pc = "extension"
    /\ LET filename == Lower(request.filename) IN
       IF \E i \in 1..Len(allowed_extensions) : endswith(filename, allowed_extensions[i])
       THEN srv_pc' = "create_temp" /\ UNCHANGED responses
       ELSE srv_pc' = "returned" /\ responses' = Sent(400, TRUE)
    /\ UNCHANGED <<request, temp_files, temp_path, result, exc>>
    /\ UNCHANGED <<core_vars, shared_vars, ocr_vars>>

\* tempfile.NamedTemporaryFile(delete=False, ...): the file is there from
\* now on, unless the call itself raises
CreateTemp ==
    /\ srv_pc = "create_temp"
    /\ \E created \in BOOLEAN :
          IF created
          THEN temp_files' = temp_files \cup {"tmp"} /\ srv_pc' = "write_temp" /\ UNCHANGED exc
          ELSE srv_pc' = "except" /\ exc' = TRUE /\ UNCHANGED temp_files
    /\ UNCHANGED <<request, responses, temp_path, result>>
    /\ UNCHANGED <<core_vars, shared_vars, ocr_vars>>

\* temp_file.write(file_item.file.read()); temp_path = temp_file.name.  An
\* OSError of the write leaves the with block before temp_path is set and
\* before the try/finally that unlinks
WriteTemp ==
    /\ srv_pc = "write_temp"
    /\ \E written \in BOOLEAN :
          IF written
          THEN temp_path' = <<"tmp">> /\ srv_pc' = "analyze" /\ UNCHANGED exc
          ELSE srv_pc' = "except" /\ exc' = TRUE /\ UNCHANGED temp_path
    /\ UNCHANGED <<request, responses, temp_files, result>>
    /\ UNCHANGED <<core_vars, shared_vars, ocr_vars>>

\* analyzer = SimpleBillAnalyzer(); result = analyzer.analyze_bill(temp_path)
Analyze ==
    /\ srv_pc = "analyze"
    /\ \/ srv_pc' = "finally" /\ exc' = TRUE /\ UNCHANGED result
       \/ \E r \in Results : result' = r /\ srv_pc' = "respond" /\ UNCHANGED exc
    /\ UNCHANGED <<request, responses, temp_files, temp_path>>
    /\ UNCHANGED <<core_vars, shared_vars, ocr_vars>>

\* self.send_simple_response(200, {...}), inside the inner try
Respond ==
    /\ srv_pc = "respond"
    /\ responses' = Sent(200, result.encodable)
    /\ exc' = ~result.encodable
    /\ srv_pc' = "finally"
    /\ UNCHANGED <<request, temp_files, temp_path, result>>
    /\ UNCHANGED <<core_vars, shared_vars, ocr_vars>>

\* finally: try: os.unlink(temp_path) except: pass
Finally ==
    /\ srv_pc = "finally"
    /\ \E unlinked \in BOOLEAN :
          temp_files' = IF unlinked THEN temp_files \ {temp_path[1]} ELSE temp_files
    /\ srv_pc' = IF exc THEN "except" ELSE "returned"
    /\ UNCHANGED <<request, responses, temp_path, result, exc>>
    /\ UNCHANGED <<core_vars, shared_vars, ocr_vars>>

\* except Exception as e: self.send_simple_response(500, {...})
Except ==
    /\ srv_pc = "except"
    /\ responses' = Sent(500, TRUE)
    /\ exc' = FALSE
    /\ srv_pc' = "returned"
    /\ UNCHANGED <<request, temp_files, temp_path, result>>
    /\ UNCHANGED <<core_vars, shared_vars, ocr_vars>>

ServerNext ==
    \/ CheckContentType
    \/ CheckContentLength
    \/ ParseForm
    \/ CheckFileField
    \/ CheckFilename
    \/ CheckExtension
    \/ CreateTemp
    \/ WriteTemp
    \/ Analyze
    \/ Respond
    \/ Finally
    \/ Except

SpecServer == ServerInit /\ [][ServerNext]_vars

(***************************************************************************)
(* Helpers of the properties below.                                        *)
(***************************************************************************)
\* what each match of pat covers in s, whole
FullMatches(pat, s) ==
    LET ms == finditer(pat, s) IN [i \in 1..Len(ms) |-> group0(ms[i], s)]

RECURSIVE SumTo(_, _)
\* f[1] + ... + f[n]
SumTo(f, n) == IF n = 0 THEN 0 ELSE SumTo(f, n - 1) + f[n]

\* w is written as a decimal number: digits, at most one point, a digit
IsDecimal(w) ==
    LET pts == {i \in 1..Len(w) : w[i] = "."}
    IN  /\ \A i \in (1..Len(w)) \ pts : w[i] \in Digits
        /\ Cardinality(pts) <= 1
        /\ Len(w) > Cardinality(pts)

\* where the point of the decimal w stands (past its end if it has none)
PointOf(w) ==
    IF \E i \in 1..Len(w) : w[i] = "."
    THEN CHOOSE i \in 1..Len(w) : w[i] = "."
    ELSE Len(w) + 1

\* 10^D times the number the decimal w denotes, digit by digit
\* (D is at least the number of digits after the point)
Scaled(w, D) ==
    LET p == PointOf(w)
    IN  SumTo([i \in 1..Len(w) |->
                  IF i = p THEN 0
                  ELSE DigitVal(w[i]) * Pow10(D + (IF i < p THEN p - i - 1 ELSE p - i))],
              Len(w))

\* 10^D times the sum of the values of amts that are decimals once ',' reads '.'
ScaledSum(amts, D) ==
    SumTo([i \in 1..Len(amts) |->
              IF IsDecimal(replace_comma(amts[i].value))
              THEN Scaled(replace_comma(amts[i].value), D)
              ELSE 0],
          Len(amts))

\* the most digits any decimal of amts has after its point
ScaleOf(amts) ==
    LET fracs == {0} \cup
                 {Len(amts[i].value) - PointOf(replace_comma(amts[i].value)) :
                    i \in {j \in 1..Len(amts) : IsDecimal(replace_comma(amts[j].value))}}
    IN  CHOOSE d \in fracs : \A e \in fracs : e <= d

ValuesOf(amts) == [i \in 1..Len(amts) |-> amts[i].value]

(***************************************************************************)
(* C1.  extract_dates: every element of the result is the full substring   *)
(* of the text that a date pattern matched, patterns in declared order,    *)
(* matches in match order.  The code returns the month name alone for the  *)
(* second pattern (re.findall with a capturing group).                     *)
(***************************************************************************)
C1_DatesAreFullMatches ==
    pc # "extract_dates" =>
        dates = Flatten([p \in 1..Len(date_patterns) |->
                            FullMatches(date_patterns[p], text)])

(***************************************************************************)
(* C2.  calculate_total: the result is the sum of the values that parse    *)
(* as numbers once ',' is replaced by '.', the others being skipped; it is *)
(* None exactly when that sum is not strictly positive.  [] gives None,    *)
(* ['0'] gives None, ['10,50', '5.25'] gives 15.75.                        *)
(***************************************************************************)
C2_TotalIsSumOfParsed ==
    pc \in {"return", "done"} =>
        LET D == ScaleOf(amounts)
            sum == ScaledSum(amounts, D)
        IN  /\ total.none <=> ~(sum > 0)
            /\ ~total.none => total.n * Pow10(D - total.d) = sum
            /\ amounts = <<>> => total = None
            /\ ValuesOf(amounts) = << <<"0">> >> => total = None
            /\ ValuesOf(amounts) = << <<"1", "0", ",", "5", "0">>, <<"5", ".", "2", "5">> >>
                  => total = [none |-> FALSE, n |-> 1575, d |-> 2]

\* a list with a value that does not parse and a positive total
C2_Witness ==
    /\ pc = "done"
    /\ ~total.none
    /\ \E i \in 1..Len(amounts) : ~IsDecimal(replace_comma(amounts[i].value))
    /\ \E i \in 1..Len(amounts) : \E j \in 1..Len(amounts[i].value) : amounts[i].value[j] = ","

(***************************************************************************)
(* C3.  total_calculated is computed from the amounts of the whole         *)
(* combined text and never from the item lines' amounts: with the item     *)
(* keywords of the text removed (numeric tokens, separators, blanks and    *)
(* currency markers untouched) the items go, the amounts and the total     *)
(* stay; the total is None exactly when no full-text amount sums to a      *)
(* positive number.                                                        *)
(***************************************************************************)
TurkishLetters ==
    {"s-cedilla", "u-umlaut", "dotless-i", "g-breve", "o-umlaut", "c-cedilla"}

Letters ==
    {LowerCase[i] : i \in 1..Len(LowerCase)} \cup
    {UpperCase[i] : i \in 1..Len(UpperCase)} \cup TurkishLetters

\* s with every letter that no amount pattern reads replaced by "x":
\* no item keyword is left, every numeric token is as it was
Unkeyworded(s) ==
    [i \in 1..Len(s) |->
        IF s[i] \in Letters \ {"t", "l", "T", "L"} THEN "x" ELSE s[i]]

C3_TotalOverFullText ==
    pc = "done" =>
        LET v    == Unkeyworded(text)
            full == extract_amounts(text)
            D    == ScaleOf(full)
        IN  /\ extract_amounts(v) = full
            /\ extract_items(v) = <<>>
            /\ total = calculate_total(extract_amounts(v))
            /\ total.none <=> ~(ScaledSum(full, D) > 0)
            /\ ~total.none => total.n * Pow10(D - total.d) = ScaledSum(full, D)

\* an item line is found, and the total is not what its amounts sum to
C3_Witness ==
    /\ pc = "done"
    /\ item_count > 0
    /\ ~total.none
    /\ total # calculate_total(ItemAmounts(items))

(***************************************************************************)
(* C4.  extract_amounts does not deduplicate across patterns: one entry    *)
(* per (pattern, match) pair, overlapping spans of different patterns both *)
(* present.  '12,50 tl' yields '12,50 tl' (with currency) and '12,50'      *)
(* (fraction only) over overlapping spans.                                 *)
(***************************************************************************)
\* pat matches the whole of w
MatchesWhole(pat, w) == MatchHere(pat, 1, w, 0).end = Len(w)

Text_12_50_tl == <<"1", "2", ",", "5", "0", " ", "t", "l">>

C4_NoDedupAcrossPatterns ==
    pc \notin {"extract_dates", "extract_amounts"} =>
        /\ Len(amounts) =
              SumTo([p \in 1..Len(amount_patterns) |->
                        Len(finditer(amount_patterns[p], text))],
                    Len(amount_patterns))
        /\ \A p \in 1..Len(amount_patterns) : \A pos \in 0..(Len(text) - 1) :
              MatchHere(amount_patterns[p], 1, text, pos).end >= 0 =>
                  \E i \in 1..Len(amounts) :
                      /\ amounts[i].position[1] <= pos
                      /\ pos < amounts[i].position[2]
                      /\ MatchesWhole(amount_patterns[p], amounts[i].original)
        /\ text = Text_12_50_tl =>
              \E i, j \in 1..Len(amounts) :
                  /\ amounts[i].original = Text_12_50_tl
                  /\ amounts[i].position = <<0, 8>>
                  /\ amounts[j].original = <<"1", "2", ",", "5", "0">>
                  /\ amounts[j].position = <<0, 5>>

\* '12,50 tl' processed: three entries, one per pattern
C4_Witness ==
    /\ pc = "done"
    /\ text = Text_12_50_tl
    /\ Len(amounts) = 3

(***************************************************************************)
(* C5.  Every AmountMatch emitted has a non-empty value made only of       *)
(* digits, '.' and ',': everything else of the matched text is stripped,   *)
(* and nothing of those three kinds is.                                    *)
(***************************************************************************)
Numeric == Digits \cup {".", ","}

ValueIsNumeric(a) ==
    /\ a.value # <<>>
    /\ \A i \in 1..Len(a.value) : a.value[i] \in Numeric
    /\ Len(a.value) = Cardinality({i \in 1..Len(a.original) : a.original[i] \in Numeric})

C5_ValuesAreNumeric ==
    pc = "done" =>
        /\ \A i \in 1..Len(amounts) : ValueIsNumeric(amounts[i])
        /\ \A i \in 1..Len(items) : \A j \in 1..Len(items[i].amounts) :
              ValueIsNumeric(items[i].amounts[j])

\* a currency marker and a blank were stripped, at top level and in a line
C5_Witness ==
    /\ pc = "done"
    /\ \E i \in 1..Len(amounts) : Len(amounts[i].value) + 3 = Len(amounts[i].original)
    /\ \E i \in 1..Len(items) : \E j \in 1..Len(items[i].amounts) :
          Len(items[i].amounts[j].value) + 3 = Len(items[i].amounts[j].original)

(***************************************************************************)
(* The lines of a text, read off the positions of its newlines.            *)
(***************************************************************************)
Range(f) == {f[i] : i \in DOMAIN f}

RECURSIVE SeqOfSet(_)
\* the numbers of S in increasing order
SeqOfSet(S) ==
    IF S = {} THEN <<>>
    ELSE LET m == CHOOSE x \in S : \A y \in S : x <= y
         IN  <<m>> \o SeqOfSet(S \ {m})

\* the offsets a line of s starts at: 0 and past every newline
LineStarts(s) == SeqOfSet({0} \cup {i \in 1..Len(s) : s[i] = "\n"})

\* the line of s starting at offset b, up to the next newline or the end
LineAt(s, b) ==
    LET ends == {i \in (b + 1)..Len(s) : s[i] = "\n"} \cup {Len(s) + 1}
        e    == CHOOSE x \in ends : \A y \in ends : x <= y
    IN  SubSeq(s, b + 1, e - 1)

\* the lines of s, trimmed and lowercased
NormalLines(s) ==
    LET starts == LineStarts(s)
    IN  [k \in 1..Len(starts) |-> Lower(strip(LineAt(s, starts[k])))]

\* w is a substring of l
IsSubstring(w, l) == \E a \in 0..(Len(l) - Len(w)) : SubSeq(l, a + 1, a + Len(w)) = w

\* the item keywords that are substrings of l
KeywordsIn(l) == {kw \in Range(item_keywords) : IsSubstring(kw, l)}

Qualifies(l) == l # <<>> /\ KeywordsIn(l) # {}

(***************************************************************************)
(* C6.  extract_items emits an ItemLine for a line if and only if the      *)
(* line, trimmed and lowercased, is non-empty and has an item keyword as a *)
(* substring (also inside a longer word); the ItemLine's items are exactly *)
(* the keywords that are substrings of the line, so never empty.           *)
(***************************************************************************)
C6_ItemLineIffKeyword ==
    pc = "done" =>
        /\ [i \in 1..Len(items) |-> items[i].line]
              = SelectSeq(NormalLines(text), Qualifies)
        /\ \A i \in 1..Len(items) :
              /\ items[i].items # <<>>
              /\ Range(items[i].items) = KeywordsIn(items[i].line)
              /\ Len(items[i].items) = Cardinality(KeywordsIn(items[i].line))

\* a keyword found inside a longer word ('et' in 'adet'), and a non-empty
\* line without keyword dropped
C6_Witness ==
    /\ pc = "done"
    /\ Len(items) = 1
    /\ IsSubstring(<<"a", "d", "e", "t">>, items[1].line)
    /\ <<"e", "t">> \in Range(items[1].items)
    /\ \E k \in 1..Len(NormalLines(text)) :
          NormalLines(text)[k] # <<>> /\ ~Qualifies(NormalLines(text)[k])

(***************************************************************************)
(* C7.  For '2 kg domates 15,00 tl' followed by the line 'hello world',    *)
(* extract_items returns exactly one ItemLine, with items = ['domates'],   *)
(* quantities = ['2 kg'] and one AmountMatch, of value '15,00'.            *)
(* Amended: the ItemLine holds three AmountMatch entries, of values        *)
(* '15,00', '00' and '15,00', one per amount pattern.                      *)
(***************************************************************************)
Text_domates == <<"2", " ", "k", "g", " ", "d", "o", "m", "a", "t", "e", "s", " ", "1", "5", ",", "0", "0", " ", "t", "l", "\n", "h", "e", "l", "l", "o", " ", "w", "o", "r", "l", "d">>

C7_ItemsQuantities ==
    /\ Len(items) = 1
    /\ items[1].line = <<"2", " ", "k", "g", " ", "d", "o", "m", "a", "t", "e", "s", " ", "1", "5", ",", "0", "0", " ", "t", "l">>
    /\ items[1].items = << <<"d", "o", "m", "a", "t", "e", "s">> >>
    /\ items[1].quantities = << <<"2", " ", "k", "g">> >>

\* the claim as stated
C7_OneAmount ==
    (pc = "done" /\ text = Text_domates) =>
        /\ C7_ItemsQuantities
        /\ ValuesOf(items[1].amounts) = << <<"1", "5", ",", "0", "0">> >>

\* the claim as amended
C7_ThreeAmounts ==
    (pc = "done" /\ text = Text_domates) =>
        /\ C7_ItemsQuantities
        /\ ValuesOf(items[1].amounts) = << <<"1", "5", ",", "0", "0">>, <<"0", "0">>, <<"1", "5", ",", "0", "0">> >>
        /\ [j \in 1..3 |-> items[1].amounts[j].original]
              = << <<"1", "5", ",", "0", "0", " ", "t", "l">>, <<"0", "0", " ", "t", "l">>, <<"1", "5", ",", "0", "0">> >>

C7_Witness == pc = "done" /\ text = Text_domates /\ item_count = 1

(***************************************************************************)
(* Helpers of the ordering and offset properties.                          *)
(***************************************************************************)
\* the offsets at which w occurs in l
Occurrences(w, l) == {a \in 0..(Len(l) - Len(w)) : SubSeq(l, a + 1, a + Len(w)) = w}

\* the first offset at which w, a substring of l, occurs
FirstPos(w, l) == CHOOSE a \in Occurrences(w, l) : \A b \in Occurrences(w, l) : a <= b

\* where kw stands in the declared keyword list
KeywordIndex(kw) == CHOOSE i \in 1..Len(item_keywords) : item_keywords[i] = kw

\* the unit whose quantity pattern the expression q matches
UnitIndex(q) ==
    CHOOSE u \in 1..Len(quantity_keywords) :
        MatchesWhole(qty_pattern(quantity_keywords[u]), q)

\* the indices of NormalLines(s) that qualify, increasing
QualifyingLines(s) ==
    LET lines == NormalLines(s)
    IN  SeqOfSet({k \in 1..Len(lines) : Qualifies(lines[k])})

\* amts is three runs, one per amount pattern in declared order, each of
\* matches of its pattern at strictly increasing start offsets
PatternMajor(amts) ==
    \E k1, k2 \in 0..Len(amts) :
        /\ k1 <= k2
        /\ \A i \in 1..Len(amts) :
              LET p == IF i <= k1 THEN 1 ELSE IF i <= k2 THEN 2 ELSE 3
              IN  /\ MatchesWhole(amount_patterns[p], amts[i].original)
                  /\ (i > 1 /\ i - 1 # k1 /\ i - 1 # k2) =>
                        amts[i - 1].position[1] < amts[i].position[1]

\* ds is the matches of the first date pattern, then those of the second,
\* each taken from inside its match, the matches left to right
DatesInOrder(ds, s) ==
    LET m1 == finditer(date_patterns[1], s)
        m2 == finditer(date_patterns[2], s)
        ms == m1 \o m2
    IN  /\ Len(ds) = Len(ms)
        /\ \A i \in 1..Len(ms) :
              \E a, b \in ms[i].start..ms[i].end : ds[i] = SubSeq(s, a + 1, b)
        /\ \A i \in 1..(Len(ms) - 1) : i # Len(m1) => ms[i].end <= ms[i + 1].start

\* the parts of the ordering claim the code satisfies as stated
OrderCommon ==
    /\ LET lines == NormalLines(text)
           ks    == QualifyingLines(text)
       IN  /\ Len(items) = Len(ks)
           /\ \A i \in 1..Len(items) : items[i].line = lines[ks[i]]
    /\ \A i \in 1..Len(items) : PatternMajor(items[i].amounts)
    /\ PatternMajor(amounts)
    /\ DatesInOrder(dates, text)

(***************************************************************************)
(* C8.  Every list of the result preserves the order of its matches in     *)
(* the source text: item lines in line order, dates and amounts pattern by *)
(* pattern and by increasing start offset within a pattern, the keywords   *)
(* of an ItemLine and its quantities in the order they occur in the line.  *)
(* Amended: the keywords come in the declared order of item_keywords, the  *)
(* quantities unit by unit in the declared order of quantity_keywords and  *)
(* left to right within a unit.                                            *)
(***************************************************************************)
\* the claim as stated
C8_OccurrenceOrder ==
    pc = "done" =>
        /\ OrderCommon
        /\ \A i \in 1..Len(items) :
              /\ \A j \in 1..(Len(items[i].items) - 1) :
                    FirstPos(items[i].items[j], items[i].line)
                       <= FirstPos(items[i].items[j + 1], items[i].line)
              /\ \A j \in 1..(Len(items[i].quantities) - 1) :
                    FirstPos(items[i].quantities[j], items[i].line)
                       <= FirstPos(items[i].quantities[j + 1], items[i].line)

\* the claim as amended
C8_DeclaredOrder ==
    pc = "done" =>
        /\ OrderCommon
        /\ \A i \in 1..Len(items) :
              /\ \A j \in 1..(Len(items[i].items) - 1) :
                    KeywordIndex(items[i].items[j]) < KeywordIndex(items[i].items[j + 1])
              /\ \A j \in 1..(Len(items[i].quantities) - 1) :
                    LET q == items[i].quantities[j]
                        r == items[i].quantities[j + 1]
                    IN  \/ UnitIndex(q) < UnitIndex(r)
                        \/ /\ UnitIndex(q) = UnitIndex(r)
                           /\ \E a \in Occurrences(q, items[i].line) :
                                 \E b \in Occurrences(r, items[i].line) : a + Len(q) <= b

\* two item lines; in one, two keywords stand in the line in the reverse of
\* their declared order
C8_Witness ==
    /\ pc = "done"
    /\ Len(items) >= 1
    /\ \E i \in 1..Len(items) :
          /\ Len(items[i].items) = 2
          /\ FirstPos(items[i].items[2], items[i].line)
                < FirstPos(items[i].items[1], items[i].line)

\* two quantities of different units, the later-declared unit first in the line
C8_QuantityWitness ==
    /\ pc = "done"
    /\ \E i \in 1..Len(items) :
          /\ Len(items[i].quantities) = 2
          /\ FirstPos(items[i].quantities[2], items[i].line)
                < FirstPos(items[i].quantities[1], items[i].line)

(***************************************************************************)
(* C9.  For every AmountMatch of the result, position = (start, end) is an *)
(* offset span into the source text with source_text[start:end] equal to   *)
(* original, for the top-level amounts and for the amounts of each         *)
(* ItemLine.  Amended: the spans of an ItemLine's amounts are offsets into *)
(* that ItemLine's line (trimmed, lowercased), not into the source text.   *)
(***************************************************************************)
SpanIs(a, s) ==
    /\ 0 <= a.position[1]
    /\ a.position[1] <= a.position[2]
    /\ a.position[2] <= Len(s)
    /\ SubSeq(s, a.position[1] + 1, a.position[2]) = a.original

\* the claim as stated
C9_SpansIntoSourceText ==
    pc = "done" =>
        /\ \A i \in 1..Len(amounts) : SpanIs(amounts[i], text)
        /\ \A i \in 1..Len(items) : \A j \in 1..Len(items[i].amounts) :
              SpanIs(items[i].amounts[j], text)

\* the claim as amended
C9_SpansIntoTextOrLine ==
    pc = "done" =>
        /\ \A i \in 1..Len(amounts) : SpanIs(amounts[i], text)
        /\ \A i \in 1..Len(items) : \A j \in 1..Len(items[i].amounts) :
              SpanIs(items[i].amounts[j], items[i].line)

\* an item line's amount whose span does not hold its original in the text
C9_Witness ==
    /\ pc = "done"
    /\ amounts # <<>>
    /\ \E i \in 1..Len(items) : \E j \in 1..Len(items[i].amounts) :
          ~SpanIs(items[i].amounts[j], text)

(***************************************************************************)
(* C10.  The extraction core is total: for every text the four operations  *)
(* return (lists, and a total that is None or a positive number) and never *)
(* raise; for the empty text dates, amounts and items are empty, the total *)
(* is None and item_count is 0.                                            *)
(***************************************************************************)
C10_TotalFunction ==
    /\ pc \in {"extract_dates", "extract_amounts", "extract_items",
               "calculate_total", "return", "done"}
    /\ pc = "done" =>
          /\ dates \in Seq(Seq(Range(text)))
          /\ \A i \in 1..Len(amounts) : DOMAIN amounts[i] = {"original", "value", "position"}
          /\ \A i \in 1..Len(items) :
                DOMAIN items[i] = {"line", "items", "quantities", "amounts"}
          /\ total.none \/ total.n > 0
          /\ item_count = Len(items)
          /\ text = <<>> =>
                /\ dates = <<>>
                /\ amounts = <<>>
                /\ items = <<>>
                /\ total = None
                /\ item_count = 0

\* the empty text, processed
C10_Witness == pc = "done" /\ text = <<>>

(***************************************************************************)
(* C11.  extract_dates returns no bare integer: for the text               *)
(* '12.05.2024 fatura no: 123' the result is exactly ['12.05.2024'], and   *)
(* in every result an element that holds a digit is a whole numeric date   *)
(* D[./]D[./]YY(YY); the only other elements are month names, which hold   *)
(* no digit.                                                               *)
(***************************************************************************)
Text_fatura == <<"1", "2", ".", "0", "5", ".", "2", "0", "2", "4", " ", "f", "a", "t", "u", "r", "a", " ", "n", "o", ":", " ", "1", "2", "3">>

Date_12_05_2024 == <<"1", "2", ".", "0", "5", ".", "2", "0", "2", "4">>

\* w is one or two digits, a dot or slash, one or two digits, a dot or
\* slash, two to four digits
IsNumericDate(w) ==
    \E a \in 1..2 : \E b \in 1..2 : \E c \in 2..4 :
        /\ Len(w) = a + b + c + 2
        /\ \A i \in 1..Len(w) :
              IF i = a + 1 \/ i = a + b + 2 THEN w[i] \in {".", "/"} ELSE w[i] \in Digits

HasDigit(w) == \E i \in 1..Len(w) : w[i] \in Digits

\* the parts of s that are maximal runs of digits, as (first, last) pairs
DigitRuns(s) ==
    {r \in (1..Len(s)) \X (1..Len(s)) :
        /\ r[1] <= r[2]
        /\ \A i \in r[1]..r[2] : s[i] \in Digits
        /\ (r[1] = 1 \/ s[r[1] - 1] \notin Digits)
        /\ (r[2] = Len(s) \/ s[r[2] + 1] \notin Digits)}

C11_OnlyDates ==
    pc # "extract_dates" =>
        /\ text = Text_fatura => dates = <<Date_12_05_2024>>
        /\ \A i \in 1..Len(dates) : HasDigit(dates[i]) => IsNumericDate(dates[i])
        /\ \A i \in 1..Len(dates) : IsSubstring(dates[i], text)

\* the example, and a text with a date and a bare integer outside it
C11_Witness ==
    /\ pc = "done"
    /\ text = Text_fatura
    /\ dates = <<Date_12_05_2024>>
    /\ \E r \in DigitRuns(text) : r[1] > Len(Date_12_05_2024)

(***************************************************************************)
(* C14.  In every result item_count is the number of ItemLine entries in   *)
(* items, one per qualifying line of the text, and not the number of       *)
(* distinct item keywords matched: a line with several keywords counts     *)
(* once, a keyword on two lines counts twice.                              *)
(***************************************************************************)
\* the distinct item keywords over all entries of its
DistinctKeywords(its) ==
    UNION {{its[i].items[j] : j \in 1..Len(its[i].items)} : i \in 1..Len(its)}

C14_ItemCountIsLines ==
    pc = "done" =>
        /\ item_count = Len(items)
        /\ item_count = Len(QualifyingLines(text))

\* one line with two keywords, counted once
C14_Witness ==
    /\ pc = "done"
    /\ item_count = 1
    /\ Cardinality(DistinctKeywords(items)) = 2

\* one keyword on two lines, counted twice
C14_RepeatWitness ==
    /\ pc = "done"
    /\ item_count = 2
    /\ Cardinality(DistinctKeywords(items)) = 1

(***************************************************************************)
(* C12.  Calls of concurrent request handlers on the shared BillOCR        *)
(* instance do not interfere: no extraction step changes the pattern       *)
(* library turkish_keywords, and under every interleaving each call has,   *)
(* after each of its steps, the result the step gives when the call runs   *)
(* alone on its text.                                                      *)
(***************************************************************************)
\* the call c has passed the step named p
Passed(c, p) ==
    LET order == <<"extract_dates", "extract_amounts", "extract_items",
                   "calculate_total", "return", "done">>
        at(q) == CHOOSE i \in 1..Len(order) : order[i] = q
    IN  at(c.pc) > at(p)

C12_NoInterference ==
    /\ turkish_keywords = Library
    /\ \A h \in Handlers :
          LET c == calls[h] IN
          /\ Passed(c, "extract_dates") => c.dates = extract_dates(c.text)
          /\ Passed(c, "extract_amounts") => c.amounts = extract_amounts(c.text)
          /\ Passed(c, "extract_items") => c.items = extract_items(c.text)
          /\ Passed(c, "calculate_total") =>
                c.total = calculate_total(extract_amounts(c.text))
          /\ Passed(c, "return") => c.item_count = Len(extract_items(c.text))

\* two calls on different texts, both under way, each with dates found
C12_Witness ==
    \E g, h \in Handlers :
        /\ g # h
        /\ calls[g].text # calls[h].text
        /\ calls[g].pc = "extract_items"
        /\ calls[h].pc = "extract_amounts"
        /\ calls[g].dates # <<>>
        /\ calls[h].dates # <<>>
        /\ calls[g].amounts # <<>>

(***************************************************************************)
(* C13.  Processing is deterministic: two runs of the extraction over the  *)
(* same text give the same dates, amounts, items, total_calculated and     *)
(* item_count; the timestamp is the only part that may differ.             *)
(***************************************************************************)
C13_Deterministic ==
    \A g, h \in Handlers :
        (calls[g].pc = "done" /\ calls[h].pc = "done" /\ calls[g].text = calls[h].text) =>
            /\ calls[g].dates = calls[h].dates
            /\ calls[g].amounts = calls[h].amounts
            /\ calls[g].items = calls[h].items
            /\ calls[g].total = calls[h].total
            /\ calls[g].item_count = calls[h].item_count

\* two finished runs over one text with something of each kind found, at
\* different times
C13_Witness ==
    \E g, h \in Handlers :
        /\ g # h
        /\ calls[g].pc = "done"
        /\ calls[h].pc = "done"
        /\ calls[g].text = calls[h].text
        /\ calls[g].dates # <<>>
        /\ calls[g].amounts # <<>>
        /\ calls[g].items # <<>>
        /\ ~calls[g].total.none
        /\ calls[g].timestamp # calls[h].timestamp

(***************************************************************************)
(* C15.  In process_bill an OCR engine that is unavailable or raises gives *)
(* the empty string and does not abort the call: whatever the two engines  *)
(* do, each engine's text is what it read or empty, the combined text is   *)
(* the tesseract text, one newline, the easyocr text, the extraction runs  *)
(* on that combined text, and the call only ends without a result when     *)
(* preprocessing raised.                                                   *)
(***************************************************************************)
\* the run of process_bill has passed the step named p
BillPassed(p) ==
    LET order == <<"preprocess_image", "extract_text_tesseract", "extract_text_easyocr",
                   "combine", "extract_dates", "extract_amounts", "extract_items",
                   "calculate_total", "return", "done">>
        at(q) == CHOOSE i \in 1..Len(order) : order[i] = q
    IN  pc # "raised" /\ at(pc) > at(p)

TesseractWorks == available.tesseract /\ ~image.tesseract.raises

EasyocrWorks == available.easyocr /\ ~image.easyocr.raises

C15_EnginesNeverAbort ==
    /\ pc = "raised" => image.preprocess_raises
    /\ BillPassed("extract_text_tesseract") =>
          text_tesseract = IF TesseractWorks THEN image.tesseract.text ELSE <<>>
    /\ BillPassed("extract_text_easyocr") =>
          text_easyocr = IF EasyocrWorks THEN join(image.easyocr.results) ELSE <<>>
    /\ BillPassed("combine") =>
          /\ Len(text) = Len(text_tesseract) + 1 + Len(text_easyocr)
          /\ SubSeq(text, 1, Len(text_tesseract)) = text_tesseract
          /\ text[Len(text_tesseract) + 1] = "\n"
          /\ SubSeq(text, Len(text_tesseract) + 2, Len(text)) = text_easyocr
    /\ pc = "done" =>
          /\ dates = extract_dates(text)
          /\ amounts = extract_amounts(text)
          /\ items = extract_items(text)
          /\ total = calculate_total(amounts)
          /\ item_count = Len(items)

\* tesseract raised, easyocr read an amount: the result is that of the
\* newline followed by the easyocr text
C15_Witness ==
    /\ pc = "done"
    /\ available.tesseract
    /\ image.tesseract.raises
    /\ image.tesseract.text # <<>>
    /\ EasyocrWorks
    /\ text = <<"\n">> \o text_easyocr
    /\ amounts # <<>>

\* both engines failed: the combined text is the newline alone
C15_BothFailWitness ==
    /\ pc = "done"
    /\ ~TesseractWorks
    /\ ~EasyocrWorks
    /\ text = <<"\n">>
    /\ dates = <<>> /\ amounts = <<>> /\ items = <<>> /\ total = None /\ item_count = 0

(***************************************************************************)
(* C16.  When the POST /process-bill handler of the simple HTTP server has *)
(* returned, on whatever path, exactly one response has been sent and no   *)
(* temporary file of the upload is left.                                   *)
(***************************************************************************)
C16_OneResponseTempDeleted ==
    srv_pc = "returned" => Len(responses) = 1 /\ temp_files = {}

====
